---- MODULE Spec2Model ----
(***************************************************************************)
(* A model of throw-shoes/scripts/face_cropper.py: the skin-mask builder,  *)
(* the erode/dilate morphology, the 8-connected component selector, the    *)
(* crop-box geometry, the radial alpha feather and crop_to_face with its   *)
(* debug export.                                                           *)
(*                                                                         *)
(* A mask is the set of its true pixels <<y, x>> (0-based, y the row)      *)
(* together with its extent h, w.  A PIL size is <<w, h>>.  A float ratio  *)
(* is held in hundredths (0.92 is 92); products and square roots of floats *)
(* are computed exactly.                                                   *)
(***************************************************************************)
EXTENDS Integers, Sequences, FiniteSets, TLC

VARIABLES call, lc, inv, fs

vars == <<call, lc, inv, fs>>

(***************************************************************************)
(* Bounds of the model.                                                    *)
(***************************************************************************)
\* frames of the box-geometry specification are 1..MaxBoxH by 1..MaxBoxW
MaxBoxH == 8
MaxBoxW == 8
\* feathered_alpha is sampled on the 100 x 100 crop and on every shape up to
\* MaxFeatherDim x MaxFeatherDim
MaxFeatherDim == 6
\* the morphology runs on every mask of every extent of at most MaxMorphPixels
\* pixels, with erode and dilate iterated up to MaxIterations times
MaxMorphPixels == 9
MaxIterations == 2
\* the component selector runs on every mask of every extent of at most
\* MaxCompPixels pixels
MaxCompPixels == 9
\* crop_to_face runs on frames whose sides are 3, 9 or MaxPipeDim
MaxPipeDim == 10
\* the number of crop_to_face invocations running in parallel
NumWorkers == 2
\* the number of writes one Image.save makes between opening and closing
SaveWrites == 2

(***************************************************************************)
(* Program constants.                                                      *)
(***************************************************************************)
\* --feather-ratio's default, 0.92, in hundredths
DefaultFeatherRatio == 92
\* SKIN_CB_RANGE, SKIN_CR_RANGE and the thresholds of skin_mask
SkinCbMin == 77
SkinCbMax == 127
SkinCrMin == 133
SkinCrMax == 173
SkinYMin == 60
SkinRMin == 70
SkinGMin == 40
SkinBMin == 20
SkinRgDiffMin == 5

(***************************************************************************)
(* Arithmetic helpers.                                                     *)
(***************************************************************************)
Min2(a, b) == IF a <= b THEN a ELSE b

Max2(a, b) == IF a >= b THEN a ELSE b

SetMin(S) == CHOOSE m \in S : \A n \in S : m <= n

SetMax(S) == CHOOSE m \in S : \A n \in S : m >= n

\* F applied to the value of v.  TLC re-evaluates an operator's argument at
\* each use; binding it through a singleton set evaluates it once.
Bind(v, F(_)) == CHOOSE r \in {F(x) : x \in {v}} : TRUE

\* the same for two values
Bind2(v, w, F(_, _)) == CHOOSE r \in {F(x, y) : x \in {v}, y \in {w}} : TRUE

\* int(n * 0.pct) for n >= 0: the float product truncated toward zero
IntScale(n, pct) == (n * pct) \div 100

(***************************************************************************)
(* A boolean mask: its extent and the set of its true pixels.              *)
(***************************************************************************)
Mask(h, w, px) == [h |-> h, w |-> w, px |-> px]

Pixels(h, w) == {<<y, x>> : y \in 0 .. h - 1, x \in 0 .. w - 1}

(***************************************************************************)
(* CropBox (face_cropper.py 17-38).                                        *)
(***************************************************************************)
CropBox(t, b, l, r) == [top |-> t, bottom |-> b, left |-> l, right |-> r]

height(box) == box.bottom - box.top

width(box) == box.right - box.left

clamp(box, h, w) ==
    CropBox(Max2(box.top, 0), Min2(box.bottom, h),
            Max2(box.left, 0), Min2(box.right, w))

(***************************************************************************)
(* skin_mask (face_cropper.py 138-160).  An RGB buffer is its extent and a *)
(* function rgb from pixels to <<r, g, b>>, each an unsigned 8-bit value.  *)
(* Image.convert("YCbCr") is Pillow's table conversion: each ITU-R BT.601  *)
(* product is rounded to 1/64 and the sum is shifted right by 6 bits.      *)
(***************************************************************************)
\* round(coef * 64 * v) for coef given in 1/100000
Fix6(coef, v) ==
    IF coef >= 0 THEN (coef * 64 * v + 50000) \div 100000
    ELSE -(((-coef) * 64 * v + 50000) \div 100000)

ycbcr(px) ==
    LET r == px[1]
        g == px[2]
        b == px[3]
    IN  <<(Fix6(29900, r) + Fix6(58700, g) + Fix6(11400, b)) \div 64,
          ((Fix6(-16874, r) + Fix6(-33126, g) + Fix6(50000, b)) \div 64) + 128,
          ((Fix6(50000, r) + Fix6(-41869, g) + Fix6(-8131, b)) \div 64) + 128>>

\* mutant: the difference taken in signed arithmetic, |r - g|
rg_diff_signed(r, g) == IF r >= g THEN r - g ELSE g - r

\* line 157: np.abs(r - g) on uint8 arrays; r - g wraps modulo 256 and the
\* absolute value of an unsigned value is the value
rg_diff(r, g) == (r - g) % 256

\* lines 147-158 for one pixel
skin_pixel(px) ==
    LET c == ycbcr(px)
    IN  /\ c[2] >= SkinCbMin /\ c[2] <= SkinCbMax
        /\ c[3] >= SkinCrMin /\ c[3] <= SkinCrMax
        /\ c[1] > SkinYMin
        /\ px[1] > SkinRMin /\ px[2] > SkinGMin /\ px[3] > SkinBMin
        /\ rg_diff(px[1], px[2]) > SkinRgDiffMin

skin_mask(image) ==
    Mask(image.h, image.w, {p \in Pixels(image.h, image.w) : skin_pixel(image.rgb[p])})

(***************************************************************************)
(* The morphology (face_cropper.py 171-204).  A call returns an outcome:   *)
(* whether it raised ValueError, how many array operations it had run on   *)
(* the mask by then (the astype copy and each padded window pass), and the *)
(* mask it returned.                                                       *)
(***************************************************************************)
NoMask == [h |-> 0, w |-> 0, px |-> {}]

Returned(mask, work) == [raised |-> FALSE, work |-> work, out |-> mask]

Raised(work) == [raised |-> TRUE, work |-> work, out |-> NoMask]

\* sliding_window_view over the zero-padded mask: the window of pixel p
Window(p, pad) == ((p[1] - pad) .. (p[1] + pad)) \X ((p[2] - pad) .. (p[2] + pad))

\* one pass of the loop body (196-201): pixels outside the frame read as 0
MorphPass(mask, pad, mode) ==
    Bind(mask, LAMBDA m :
        IF mode = "dilate"
        THEN Mask(m.h, m.w, {p \in Pixels(m.h, m.w) : \E q \in Window(p, pad) : q \in m.px})
        ELSE Mask(m.h, m.w, {p \in Pixels(m.h, m.w) : \A q \in Window(p, pad) : q \in m.px}))

RECURSIVE MorphLoop(_, _, _, _)
MorphLoop(working, pad, iterations, mode) ==
    IF iterations <= 0 THEN working
    ELSE MorphLoop(MorphPass(working, pad, mode), pad, iterations - 1, mode)

\* mutant: the parity check sits inside the loop, after the first padding
_binary_morph_check_in_loop(mask, kernel, iterations, mode) ==
    IF iterations <= 0 THEN Returned(mask, 1)
    ELSE IF kernel % 2 = 0 THEN Raised(2)
    ELSE Returned(MorphLoop(mask, kernel \div 2, iterations, mode), 1 + iterations)

_binary_morph(mask, kernel, iterations, mode) ==
    IF kernel % 2 = 0 THEN Raised(0)
    ELSE IF iterations > 0 /\ mode \notin {"dilate", "erode"} THEN Raised(2)
    ELSE Returned(MorphLoop(mask, kernel \div 2, iterations, mode), 1 + Max2(iterations, 0))

binary_dilate(mask, kernel, iterations) == _binary_morph(mask, kernel, iterations, "dilate")

binary_erode(mask, kernel, iterations) == _binary_morph(mask, kernel, iterations, "erode")

\* g(f(...)): an exception of the inner call propagates, the work adds up
AndThen(first, second) ==
    IF first.raised THEN first
    ELSE [raised |-> second.raised, work |-> first.work + second.work, out |-> second.out]

\* first, and then next(first.out) unless first raised
Chain(first, next(_)) ==
    Bind(first, LAMBDA a :
        IF a.raised THEN a ELSE Bind(next(a.out), LAMBDA b : AndThen(a, b)))

binary_open(mask, kernel) ==
    Chain(binary_erode(mask, kernel, 1), LAMBDA eroded : binary_dilate(eroded, kernel, 1))

binary_close(mask, kernel) ==
    Chain(binary_dilate(mask, kernel, 1), LAMBDA dilated : binary_erode(dilated, kernel, 1))

\* refine_mask (163-168): open 5, close 9, dilate 7 twice
refine_mask(mask) ==
    Chain(Chain(binary_open(mask, 5), LAMBDA clean : binary_close(clean, 9)),
          LAMBDA clean : binary_dilate(clean, 7, 2))

(***************************************************************************)
(* largest_component_mask and flood_fill (face_cropper.py 207-251), as the *)
(* steps of their loops over a working state s:                            *)
(*   mask, visited, best_coords   the locals of largest_component_mask     *)
(*   y, candidates                the row loop and the row's candidate     *)
(*                                columns still to start a fill from       *)
(*   queue, coords                the locals of the running flood_fill     *)
(*   processed                    every pixel dequeued so far, in order    *)
(*   stale                        the fills started from a visited pixel   *)
(*   result                       the returned mask, or None               *)
(***************************************************************************)
None == [none |-> TRUE]

LcmInit(mask) ==
    [pc |-> "row", mask |-> mask, visited |-> {}, best_coords |-> << >>, y |-> 0,
     candidates |-> << >>, queue |-> << >>, coords |-> << >>,
     processed |-> << >>, stale |-> << >>, result |-> None]

\* the elements of a set of integers in increasing order
RECURSIVE Ascending(_)
Ascending(S) == IF S = {} THEN << >> ELSE <<SetMin(S)>> \o Ascending(S \ {SetMin(S)})

SeqToSet(q) == {q[i] : i \in 1 .. Len(q)}

\* range(y - 1, y + 2) x range(x - 1, x + 2), in loop order
Neighbours(p) ==
    <<<<p[1] - 1, p[2] - 1>>, <<p[1] - 1, p[2]>>, <<p[1] - 1, p[2] + 1>>,
      <<p[1], p[2] - 1>>, <<p[1], p[2]>>, <<p[1], p[2] + 1>>,
      <<p[1] + 1, p[2] - 1>>, <<p[1] + 1, p[2]>>, <<p[1] + 1, p[2] + 1>>>>

\* line 215: candidates = np.where(row & ~visited[y])[0], taken once per row
ScanRow(s) ==
    [s EXCEPT !.candidates = Ascending({x \in 0 .. s.mask.w - 1 :
                                          <<s.y, x>> \in s.mask.px \ s.visited}),
              !.pc = "cand"]

\* the row's candidates are exhausted: the next row
NextRow(s) == [s EXCEPT !.y = s.y + 1, !.pc = "row"]

\* lines 216-217 and 234-236: flood_fill starts from the next candidate
StartFill(s) ==
    LET start == <<s.y, Head(s.candidates)>>
    IN  [s EXCEPT !.candidates = Tail(s.candidates),
                  !.queue = <<start>>,
                  !.visited = s.visited \cup {start},
                  !.coords = << >>,
                  !.stale = IF start \in s.visited THEN Append(s.stale, start) ELSE s.stale,
                  !.pc = "fill"]

\* lines 238-250: one turn of the while loop
FillStep(s) ==
    LET p == Head(s.queue)
        Fresh(q) == /\ q[1] >= 0 /\ q[1] < s.mask.h
                    /\ q[2] >= 0 /\ q[2] < s.mask.w
                    /\ q \notin s.visited
                    /\ q \in s.mask.px
        found == SelectSeq(Neighbours(p), Fresh)
    IN  [s EXCEPT !.queue = Tail(s.queue) \o found,
                  !.coords = Append(s.coords, p),
                  !.processed = Append(s.processed, p),
                  !.visited = s.visited \cup SeqToSet(found)]

\* mutant: a region of equal size replaces the best one
Larger_or_equal(coords, best_coords) == Len(coords) >= Len(best_coords)

\* line 218
Larger(coords, best_coords) == Len(coords) > Len(best_coords)

\* lines 251 and 218-219: flood_fill returns coords
EndFill(s) ==
    [s EXCEPT !.best_coords = IF Larger(s.coords, s.best_coords)
                              THEN s.coords ELSE s.best_coords,
              !.pc = "cand"]

\* mutant: a best region of a single pixel counts as no region
Finish_single_dropped(s) ==
    [s EXCEPT !.result = IF Len(s.best_coords) <= 1 THEN None
                         ELSE Mask(s.mask.h, s.mask.w, SeqToSet(s.best_coords)),
              !.pc = "done"]

\* lines 221-227
Finish(s) ==
    [s EXCEPT !.result = IF s.best_coords = << >> THEN None
                         ELSE Mask(s.mask.h, s.mask.w, SeqToSet(s.best_coords)),
              !.pc = "done"]

LcmStep(s) ==
    CASE s.pc = "row" /\ s.y < s.mask.h -> ScanRow(s)
      [] s.pc = "row" /\ s.y >= s.mask.h -> Finish(s)
      [] s.pc = "cand" /\ s.candidates # << >> -> StartFill(s)
      [] s.pc = "cand" /\ s.candidates = << >> -> NextRow(s)
      [] s.pc = "fill" /\ s.queue # << >> -> FillStep(s)
      [] s.pc = "fill" /\ s.queue = << >> -> EndFill(s)

\* no call takes more steps than this: two per row, two per started fill,
\* one per dequeued pixel, and the final one
StepBound(mask) == 2 * mask.h + 4 * mask.h * mask.w + 1

\* n steps from s (none once the call has returned), by halving
RECURSIVE LcmSteps(_, _)
LcmSteps(s, n) ==
    IF n = 0 \/ s.pc = "done" THEN s
    ELSE IF n = 1 THEN LcmStep(s)
    ELSE Bind(LcmSteps(s, n \div 2), LAMBDA t : LcmSteps(t, n - n \div 2))

largest_component_mask(mask) ==
    Bind(LcmInit(mask), LAMBDA s : LcmSteps(s, StepBound(mask)).result)

(***************************************************************************)
(* make_square (face_cropper.py 278-312).                                  *)
(***************************************************************************)
\* mutant: the square is recentred and clamped, never shifted back into the frame
make_square_noshift(box, total_h, total_w) ==
    LET side == Max2(height(box), width(box))
        top0 == box.top + height(box) \div 2 - side \div 2
        left0 == box.left + width(box) \div 2 - side \div 2
    IN  CropBox(Max2(top0, 0), Min2(top0 + side, total_h),
                Max2(left0, 0), Min2(left0 + side, total_w))

\* mutant: the centre of the box is rounded up instead of down
make_square_centre_up(box, total_h, total_w) ==
    LET side == Max2(height(box), width(box))
        top0 == box.top + (height(box) + 1) \div 2 - side \div 2
        left0 == box.left + (width(box) + 1) \div 2 - side \div 2
        top1 == Max2(top0, 0) - Max2(Max2(top0, 0) + side - total_h, 0)
        left1 == Max2(left0, 0) - Max2(Max2(left0, 0) + side - total_w, 0)
    IN  CropBox(Max2(top1, 0), Min2(top1 + side, total_h),
                Max2(left1, 0), Min2(left1 + side, total_w))

make_square(box, total_h, total_w) ==
    LET side == Max2(height(box), width(box))
        center_y == box.top + height(box) \div 2
        center_x == box.left + width(box) \div 2
        half == side \div 2
        top0 == center_y - half
        bottom0 == top0 + side
        left0 == center_x - half
        right0 == left0 + side
        \* if top < 0: bottom -= top; top = 0
        bottom1 == IF top0 < 0 THEN bottom0 - top0 ELSE bottom0
        top1 == IF top0 < 0 THEN 0 ELSE top0
        \* if left < 0: right -= left; left = 0
        right1 == IF left0 < 0 THEN right0 - left0 ELSE right0
        left1 == IF left0 < 0 THEN 0 ELSE left0
        \* if bottom > total_h: top -= bottom - total_h; bottom = total_h
        top2 == IF bottom1 > total_h THEN top1 - (bottom1 - total_h) ELSE top1
        bottom2 == IF bottom1 > total_h THEN total_h ELSE bottom1
        \* if right > total_w: left -= right - total_w; right = total_w
        left2 == IF right1 > total_w THEN left1 - (right1 - total_w) ELSE left1
        right2 == IF right1 > total_w THEN total_w ELSE right1
    IN  CropBox(Max2(top2, 0), Min2(bottom2, total_h),
                Max2(left2, 0), Min2(right2, total_w))

(***************************************************************************)
(* compute_crop_box (face_cropper.py 254-275).  size is PIL's <<w, h>>.    *)
(***************************************************************************)
\* mutant: the exclusive edges lose their + 1
expanded_box_inclusive(component_mask, size) ==
    LET ys == {p[1] : p \in component_mask.px}
        xs == {p[2] : p \in component_mask.px}
        face_h == SetMax(ys) - SetMin(ys) + 1
        face_w == SetMax(xs) - SetMin(xs) + 1
    IN  CropBox(Max2(SetMin(ys) - IntScale(face_h, 55), 0),
                Min2(SetMax(ys) + IntScale(face_h, 25), size[2] - 1),
                Max2(SetMin(xs) - IntScale(face_w, 45), 0),
                Min2(SetMax(xs) + IntScale(face_w, 45), size[1] - 1))

\* the box after the asymmetric expansion, before make_square (263-272)
expanded_box(component_mask, size) ==
    LET h_total == size[2]
        w_total == size[1]
        ys == {p[1] : p \in component_mask.px}
        xs == {p[2] : p \in component_mask.px}
        top0 == SetMin(ys)
        bottom0 == SetMax(ys)
        left0 == SetMin(xs)
        right0 == SetMax(xs)
        face_h == bottom0 - top0 + 1
        face_w == right0 - left0 + 1
        expand_y_top == IntScale(face_h, 55)
        expand_y_bottom == IntScale(face_h, 25)
        expand_x == IntScale(face_w, 45)
        top1 == Max2(top0 - expand_y_top, 0)
        bottom1 == Min2(bottom0 + expand_y_bottom, h_total - 1)
        left1 == Max2(left0 - expand_x, 0)
        right1 == Min2(right0 + expand_x, w_total - 1)
    IN  CropBox(top1, bottom1 + 1, left1, right1 + 1)

compute_crop_box(component_mask, size) ==
    clamp(make_square(expanded_box(component_mask, size), size[2], size[1]),
          size[2], size[1])

(***************************************************************************)
(* IEEE-754 binary64 arithmetic, as numpy performs it in feathered_alpha.  *)
(* A natural number of any size is a sequence of limbs in base LimbBase,   *)
(* least significant first, without leading zero limbs (<< >> is 0).  A    *)
(* double is <<m, e>>, the value m * 2^e with 2^52 <= m < 2^53, or DZero.  *)
(* Only non-negative doubles occur: the sign of a coordinate is lost when  *)
(* it is squared.  Every operation rounds its exact result to the nearest  *)
(* double, ties to even.                                                   *)
(***************************************************************************)
LimbBits == 15

LimbBase == 32768

MantissaBits == 53

RECURSIVE Pow2(_)
Pow2(k) == IF k = 0 THEN 1 ELSE 2 * Pow2(k - 1)

RECURSIVE BitLenSmall(_)
BitLenSmall(n) == IF n = 0 THEN 0 ELSE 1 + BitLenSmall(n \div 2)

RECURSIVE Trim(_)
Trim(A) ==
    IF A = << >> THEN A
    ELSE IF A[Len(A)] = 0 THEN Trim(SubSeq(A, 1, Len(A) - 1)) ELSE A

RECURSIVE BigOf(_)
BigOf(n) == IF n = 0 THEN << >> ELSE <<n % LimbBase>> \o BigOf(n \div LimbBase)

Limb(A, i) == IF i >= 1 /\ i <= Len(A) THEN A[i] ELSE 0

\* the value of a number of at most two limbs
SmallOf(A) == Limb(A, 1) + LimbBase * Limb(A, 2)

BitLen(A) == IF A = << >> THEN 0 ELSE LimbBits * (Len(A) - 1) + BitLenSmall(A[Len(A)])

RECURSIVE CmpFrom(_, _, _)
CmpFrom(A, B, i) ==
    IF i = 0 THEN 0
    ELSE IF A[i] # B[i] THEN (IF A[i] < B[i] THEN -1 ELSE 1)
    ELSE CmpFrom(A, B, i - 1)

\* -1, 0 or 1 as A is less than, equal to or greater than B
Cmp(A, B) ==
    IF Len(A) # Len(B) THEN (IF Len(A) < Len(B) THEN -1 ELSE 1)
    ELSE CmpFrom(A, B, Len(A))

RECURSIVE AddFrom(_, _, _, _)
AddFrom(A, B, i, carry) ==
    IF i > Len(A) /\ i > Len(B) THEN (IF carry = 0 THEN << >> ELSE <<carry>>)
    ELSE <<(Limb(A, i) + Limb(B, i) + carry) % LimbBase>>
         \o AddFrom(A, B, i + 1, (Limb(A, i) + Limb(B, i) + carry) \div LimbBase)

AddB(A, B) == AddFrom(A, B, 1, 0)

RECURSIVE SubFrom(_, _, _, _)
SubFrom(A, B, i, borrow) ==
    IF i > Len(A) THEN << >>
    ELSE <<(A[i] - Limb(B, i) - borrow) % LimbBase>>
         \o SubFrom(A, B, i + 1, IF A[i] - Limb(B, i) - borrow < 0 THEN 1 ELSE 0)

\* A - B, for A >= B
SubB(A, B) == Trim(SubFrom(A, B, 1, 0))

RECURSIVE MulSmallFrom(_, _, _, _)
MulSmallFrom(A, k, i, carry) ==
    IF i > Len(A) THEN (IF carry = 0 THEN << >> ELSE <<carry>>)
    ELSE <<(A[i] * k + carry) % LimbBase>>
         \o MulSmallFrom(A, k, i + 1, (A[i] * k + carry) \div LimbBase)

\* A * k, for 0 <= k < LimbBase
MulSmall(A, k) == IF k = 0 THEN << >> ELSE MulSmallFrom(A, k, 1, 0)

ShlLimbs(A, n) == IF A = << >> THEN A ELSE [i \in 1 .. n |-> 0] \o A

ShrLimbs(A, n) == IF n >= Len(A) THEN << >> ELSE SubSeq(A, n + 1, Len(A))

RECURSIVE MulFrom(_, _, _)
MulFrom(A, B, j) ==
    IF j > Len(B) THEN << >>
    ELSE AddB(ShlLimbs(MulSmall(A, B[j]), j - 1), MulFrom(A, B, j + 1))

MulB(A, B) == MulFrom(A, B, 1)

\* A * 2^s
Shl(A, s) == ShlLimbs(MulSmall(A, Pow2(s % LimbBits)), s \div LimbBits)

RECURSIVE DivSmallFrom(_, _, _, _)
DivSmallFrom(A, k, i, rem) ==
    IF i = 0 THEN << >>
    ELSE DivSmallFrom(A, k, i - 1, (rem * LimbBase + A[i]) % k)
         \o <<(rem * LimbBase + A[i]) \div k>>

\* A div 2^s
Shr(A, s) ==
    LET top == ShrLimbs(A, s \div LimbBits)
    IN  Trim(DivSmallFrom(top, Pow2(s % LimbBits), Len(top), 0))

\* are the s lowest bits of A all zero
LowZero(A, s) ==
    /\ \A i \in 1 .. s \div LimbBits : Limb(A, i) = 0
    /\ Limb(A, s \div LimbBits + 1) % Pow2(s % LimbBits) = 0

\* bit k of A, the lowest being bit 0
BitAt(A, k) == (Limb(A, k \div LimbBits + 1) \div Pow2(k % LimbBits)) % 2

RECURSIVE Correct(_, _, _)
Correct(R, D, q) == IF Cmp(R, D) >= 0 THEN Correct(SubB(R, D), D, q + 1) ELSE <<q, R>>

\* R div D and R mod D for R < D * LimbBase and D's top limb >= LimbBase / 2:
\* an estimate from the top limbs that is never too large, then corrected
Digit(R, D) ==
    LET n == Len(D)
        rtop == Limb(R, n + 1) * LimbBase + Limb(R, n)
        qhat == IF rtop \div (D[n] + 1) < LimbBase - 1
                THEN rtop \div (D[n] + 1) ELSE LimbBase - 1
    IN  IF Len(R) < n THEN <<0, R>>
        ELSE Correct(SubB(R, MulSmall(D, qhat)), D, qhat)

\* long division from limb i of A down, with the quotient Q and the
\* remainder R of the limbs above
RECURSIVE DivFrom(_, _, _, _, _)
DivFrom(A, D, i, Q, R) ==
    IF i = 0 THEN <<Q, R>>
    ELSE Bind(Digit(Trim(<<A[i]>> \o R), D),
              LAMBDA dr : DivFrom(A, D, i - 1, <<dr[1]>> \o Q, dr[2]))

\* <<A div D, A mod D>>, for D > 0
DivB(A, D) ==
    Bind(LimbBits - BitLenSmall(D[Len(D)]), LAMBDA s :
        Bind2(Shl(A, s), Shl(D, s), LAMBDA An, Dn :
            Bind(DivFrom(An, Dn, Len(An), << >>, << >>),
                 LAMBDA qr : <<Trim(qr[1]), Shr(qr[2], s)>>)))

\* the largest r with r * r <= t, for t < 2^30
RECURSIVE IsqrtBits(_, _, _)
IsqrtBits(t, r, bit) ==
    IF bit = 0 THEN r
    ELSE IsqrtBits(t, IF (r + bit) * (r + bit) <= t THEN r + bit ELSE r, bit \div 2)

RECURSIVE Newton(_, _)
Newton(N, x) ==
    Bind(Shr(AddB(x, DivB(N, x)[1]), 1),
         LAMBDA y : IF Cmp(y, x) < 0 THEN Newton(N, y) ELSE x)

\* the largest x with x * x <= N
SqrtB(N) ==
    IF N = << >> THEN << >>
    ELSE LET s == IF BitLen(N) <= 30 THEN 0 ELSE 2 * ((BitLen(N) - 29) \div 2)
             t == SmallOf(Shr(N, s))
         IN  Bind(Shl(BigOf(IsqrtBits(t, 0, 16384) + 1), s \div 2),
                  LAMBDA x0 : Newton(N, x0))

DZero == <<<< >>, 0>>

\* the double nearest to N * 2^e, or to a value strictly between N * 2^e and
\* (N + 1) * 2^e when sticky; ties go to the even mantissa
Round(N, e, sticky) ==
    IF N = << >> THEN DZero
    ELSE IF BitLen(N) <= MantissaBits
    THEN <<Shl(N, MantissaBits - BitLen(N)), e - (MantissaBits - BitLen(N))>>
    ELSE LET s == BitLen(N) - MantissaBits
             q == Shr(N, s)
             half == BitAt(N, s - 1) = 1
             rest == sticky \/ ~LowZero(N, s - 1)
             up == half /\ (rest \/ q[1] % 2 = 1)
             m == IF up THEN AddB(q, <<1>>) ELSE q
         IN  IF BitLen(m) > MantissaBits THEN <<Shr(m, 1), e + s + 1>> ELSE <<m, e + s>>

\* the double of a natural number below 2^31, and of half of it
DOfInt(n) == Round(BigOf(n), 0, FALSE)

DHalf(n) == Round(BigOf(n), -1, FALSE)

DLeq(x, y) ==
    IF x = DZero THEN TRUE
    ELSE IF y = DZero THEN FALSE
    ELSE IF x[2] # y[2] THEN x[2] < y[2]
    ELSE Cmp(x[1], y[1]) <= 0

DLess(x, y) == ~DLeq(y, x)

DMul(x, y) ==
    Bind2(x, y, LAMBDA a, b :
        Bind(MulB(a[1], b[1]), LAMBDA N : Round(N, a[2] + b[2], FALSE)))

DAdd(x, y) ==
    Bind2(x, y, LAMBDA a, b :
        IF a = DZero THEN b
        ELSE IF b = DZero THEN a
        ELSE LET e == IF a[2] < b[2] THEN a[2] ELSE b[2]
             IN  Bind(AddB(Shl(a[1], a[2] - e), Shl(b[1], b[2] - e)),
                      LAMBDA N : Round(N, e, FALSE)))

\* x - y, for x >= y
DSub(x, y) ==
    Bind2(x, y, LAMBDA a, b :
        IF b = DZero THEN a
        ELSE LET e == IF a[2] < b[2] THEN a[2] ELSE b[2]
             IN  Bind(SubB(Shl(a[1], a[2] - e), Shl(b[1], b[2] - e)),
                      LAMBDA N : Round(N, e, FALSE)))

\* x / y, for y > 0
DDiv(x, y) ==
    Bind2(x, y, LAMBDA a, b :
        IF a = DZero THEN DZero
        ELSE Bind(DivB(Shl(a[1], MantissaBits + 2), b[1]), LAMBDA qr :
                Round(qr[1], a[2] - b[2] - (MantissaBits + 2), qr[2] # << >>)))

DSqrt(x) ==
    Bind(x, LAMBDA a :
        IF a = DZero THEN DZero
        ELSE LET k == MantissaBits + 3 + ((a[2] - (MantissaBits + 3)) % 2)
             IN  Bind(Shl(a[1], k), LAMBDA N :
                     Bind(SqrtB(N), LAMBDA root :
                         Round(root, (a[2] - k) \div 2, MulB(root, root) # N))))

\* astype(np.uint8) of a double in [0, 256): the integer part
DTrunc(x) == Bind(x, LAMBDA a : IF a = DZero THEN 0 ELSE SmallOf(Shr(a[1], -a[2])))

(***************************************************************************)
(* feathered_alpha (face_cropper.py 315-331).  shape is <<h, w>>; the      *)
(* ratio enters in hundredths and is the double nearest to that decimal.   *)
(***************************************************************************)
DOne == DOfInt(1)

\* a ratio given in hundredths, as the float the caller passes
RatioOf(pct) == DDiv(DOfInt(pct), DOfInt(100))

\* the literal 0.98
MaxInner == RatioOf(98)

\* line 325: np.clip(inner_ratio, 0.0, 0.98)
clip_inner(inner_ratio) ==
    IF inner_ratio <= 0 THEN DZero
    ELSE IF inner_ratio >= 98 THEN MaxInner
    ELSE RatioOf(inner_ratio)

\* |k - (n - 1) / 2.0|, a multiple of one half
centred(k, n) == DHalf(IF 2 * k - (n - 1) < 0 THEN (n - 1) - 2 * k ELSE 2 * k - (n - 1))

\* mutant: the coordinate normalised by (n - 1) / 2, which puts the outermost
\* pixel centres at distance 1
norm_coord_edge(k, n) == IF n = 1 THEN DZero ELSE DDiv(centred(k, n), DHalf(n - 1))

\* lines 317-320: |(k - (n - 1) / 2.0) / (n / 2.0)|
norm_coord(k, n) == DDiv(centred(k, n), DHalf(n))

\* line 322, xx**2 and yy**2: the square of a coordinate
squared(x) == DMul(x, x)

\* lines 322-331 for one pixel, from the squares of its normalised coordinates
ramp_alpha(yy2, xx2, inner) ==
    Bind(DSqrt(DAdd(xx2, yy2)), LAMBDA r :
        Bind(IF DLeq(r, inner) THEN DOne
             ELSE IF DLess(r, DOne) THEN DDiv(DSub(DOne, r), DSub(DOne, inner))
             ELSE DZero,
             LAMBDA alpha :
                DTrunc(DMul(IF DLeq(alpha, DOne) THEN alpha ELSE DOne, DOfInt(255)))))

\* the opacity of pixel <<i, j>>
alpha_at(shape, inner_ratio, i, j) ==
    ramp_alpha(squared(norm_coord(i, shape[1])), squared(norm_coord(j, shape[2])),
               clip_inner(inner_ratio))

\* the squares of the normalised coordinates lo .. hi of an axis of n
\* pixels, as a sequence
RECURSIVE axis_squares(_, _, _)
axis_squares(lo, hi, n) ==
    IF lo > hi THEN << >>
    ELSE IF lo = hi THEN <<squared(norm_coord(lo, n))>>
    ELSE axis_squares(lo, (lo + hi) \div 2, n) \o axis_squares((lo + hi) \div 2 + 1, hi, n)

\* the whole map: the two axes are computed once, as the code computes them
alpha_map(shape, inner_ratio) ==
    LET yy2 == axis_squares(0, shape[1] - 1, shape[1])
        xx2 == axis_squares(0, shape[2] - 1, shape[2])
        inner == clip_inner(inner_ratio)
    IN  [p \in (0 .. shape[1] - 1) \X (0 .. shape[2] - 1) |->
            ramp_alpha(yy2[p[1] + 1], xx2[p[2] + 1], inner)]

\* the crop of the spec's worked example
ClaimShape == <<100, 100>>

\* the default ratio, and one that np.clip brings down to 0.98
FeatherRatios == {DefaultFeatherRatio, 100}

\* the shapes the calls below ask for
KnownShapes == ((1 .. MaxPipeDim) \X (1 .. MaxPipeDim)) \cup {ClaimShape}

\* their maps, each computed once however many calls ask for it
KnownAlphaMaps ==
    {<<shape, ratio, alpha_map(shape, ratio)>> : shape \in KnownShapes, ratio \in FeatherRatios}

feathered_alpha(shape, inner_ratio) ==
    IF shape \in KnownShapes /\ inner_ratio \in FeatherRatios
    THEN (CHOOSE t \in KnownAlphaMaps : t[1] = shape /\ t[2] = inner_ratio)[3]
    ELSE alpha_map(shape, inner_ratio)

(***************************************************************************)
(* fallback_crop (face_cropper.py 334-342).  The image enters by its size  *)
(* <<w, h>>.  An RGBA buffer is the box its colours were cut from and its  *)
(* alpha map, a function over the pixels of the crop.                      *)
(***************************************************************************)
Rgba(box, alpha) == [box |-> box, alpha |-> alpha]

\* mutant: a strictly centred square, without the upward bias
fallback_crop_centred(size, feather_ratio) ==
    LET side == Min2(size[1], size[2])
        left == (size[1] - side) \div 2
        top == (size[2] - side) \div 2
    IN  Rgba(CropBox(top, top + side, left, left + side),
             feathered_alpha(<<side, side>>, feather_ratio))

fallback_crop(size, feather_ratio) ==
    LET w == size[1]
        h == size[2]
        side == Min2(w, h)
        left == (w - side) \div 2
        top == Max2((h - side) \div 2 - side \div 6, 0)
        \* image.crop((left, top, left + side, top + side)); crop.size is <<w, h>>
        crop_box == CropBox(top, top + side, left, left + side)
        crop_size == <<width(crop_box), height(crop_box)>>
    IN  Rgba(crop_box, feathered_alpha(<<crop_size[2], crop_size[1]>>, feather_ratio))

(***************************************************************************)
(* The file system.  A path is <<directory, stem>>; every file written is  *)
(* a .png.  The file system holds the directories made, each file's        *)
(* content and who has opened it for writing.  Image.save(path) opens the  *)
(* path for writing, which empties it, writes the encoding in SaveWrites   *)
(* pieces, each at the writer's own offset, and closes.  Nothing locks a   *)
(* file: a second writer's open or writes may fall between the first's.    *)
(***************************************************************************)
NoFile == [absent |-> TRUE]

Hole == [hole |-> TRUE]

\* piece k of the encoding of data
Piece(data, k) == [part |-> k, of |-> data]

\* the content of a file that one uninterrupted save of data leaves
Encoded(data) == [k \in 1 .. SaveWrites |-> Piece(data, k)]

\* content with piece c at offset k; the gap up to k, if any, reads as zeros
Put(content, k, c) ==
    IF k <= Len(content) THEN [content EXCEPT ![k] = c]
    ELSE content \o [j \in 1 .. k - 1 - Len(content) |-> Hole] \o <<c>>

FsMkdir(files, dir) == [files EXCEPT !.dirs = @ \cup {dir}]

FsOpen(files, path, by) ==
    [files EXCEPT !.files[path] = << >>, !.writers[path] = @ \cup {by}]

FsWrite(files, path, data, k) == [files EXCEPT !.files[path] = Put(@, k, Piece(data, k))]

RECURSIVE FsWriteFrom(_, _, _, _)
FsWriteFrom(files, path, data, k) ==
    IF k > SaveWrites THEN files
    ELSE FsWriteFrom(FsWrite(files, path, data, k), path, data, k + 1)

\* a whole save with nothing in between
FsSave(files, path, data, by) == FsWriteFrom(FsOpen(files, path, by), path, data, 1)

FsExists(files, path) == files.files[path] # NoFile

(***************************************************************************)
(* export_debug_layers (face_cropper.py 345-363): the file-system          *)
(* operations it performs, in order.  Every call uses the same relative    *)
(* directory and the same three file names.                                *)
(***************************************************************************)
DebugDir == "face_cropper_debug"

MaskFile == <<DebugDir, "mask">>

BoundsFile == <<DebugDir, "bounds">>

CroppedFile == <<DebugDir, "cropped">>

DebugFiles == {MaskFile, BoundsFile, CroppedFile}

export_debug_layers(mask, bounds, original, cropped) ==
    <<[op |-> "mkdir", path |-> DebugDir, data |-> "dir"],
      [op |-> "save", path |-> MaskFile, data |-> [mask |-> mask]],
      [op |-> "save", path |-> BoundsFile, data |-> [original |-> original, bounds |-> bounds]],
      [op |-> "save", path |-> CroppedFile, data |-> [cropped |-> cropped, of |-> original]]>>

(***************************************************************************)
(* crop_to_face (face_cropper.py 116-135).  The result holds the locals of *)
(* the call: the masks of each stage, the branch taken, whether an         *)
(* exception escaped, the returned RGBA buffer and the file-system         *)
(* operations performed.                                                   *)
(***************************************************************************)
NoRgba == [box |-> CropBox(0, 0, 0, 0), alpha |-> << >>]

\* lines 125-135: a region was found
face_crop(image, feather_ratio, debug_masks, skin, refined, component_mask) ==
    Bind(compute_crop_box(component_mask, <<image.w, image.h>>), LAMBDA bounds :
        \* crop = rgb[top:bottom, left:right]; alpha over crop.shape[:2]
        Bind(Rgba(bounds, feathered_alpha(<<height(bounds), width(bounds)>>, feather_ratio)),
             LAMBDA result :
                [raised |-> FALSE, branch |-> "face", skin |-> skin, refined |-> refined,
                 component_mask |-> component_mask, ret |-> result,
                 fs_ops |-> IF debug_masks
                            THEN export_debug_layers(component_mask, bounds, image, result)
                            ELSE << >>]))

crop_to_face(image, feather_ratio, debug_masks) ==
    Bind(skin_mask(image), LAMBDA skin :
        Bind(refine_mask(skin), LAMBDA refined :
            IF refined.raised
            THEN [raised |-> TRUE, branch |-> "none", skin |-> skin, refined |-> NoMask,
                  component_mask |-> None, ret |-> NoRgba, fs_ops |-> << >>]
            ELSE Bind(largest_component_mask(refined.out), LAMBDA component_mask :
                    IF component_mask = None
                    THEN [raised |-> FALSE, branch |-> "fallback", skin |-> skin,
                          refined |-> refined.out, component_mask |-> None,
                          ret |-> fallback_crop(<<image.w, image.h>>, feather_ratio),
                          fs_ops |-> << >>]
                    ELSE face_crop(image, feather_ratio, debug_masks, skin, refined.out,
                                   component_mask))))

(***************************************************************************)
(* State.  call is the pure-function call under observation (its           *)
(* arguments and what it returned); lc is the component selector's         *)
(* working state; inv and fs are the concurrent crop_to_face invocations   *)
(* and the file system they share.                                         *)
(***************************************************************************)
NoCall == [fn |-> "none"]

Idle == [pc |-> "idle"]

InitCall == call = NoCall /\ lc = Idle /\ inv = << >> /\ fs = << >>

(***************************************************************************)
(* Box geometry: compute_crop_box and fallback_crop over every frame up to *)
(* MaxBoxH x MaxBoxW and region masks of every bounding box.               *)
(***************************************************************************)
Rect(t, b, l, r) == (t .. b) \X (l .. r)

\* the left column and the bottom row of a bounding box: an 8-connected region
Ell(t, b, l, r) == ((t .. b) \X {l}) \cup ({b} \X (l .. r))

BoxMasks(h, w) ==
    UNION {{Mask(h, w, Rect(t, b, l, r)), Mask(h, w, Ell(t, b, l, r))} :
             <<t, b, l, r>> \in {q \in (0 .. h - 1) \X (0 .. h - 1) \X (0 .. w - 1) \X (0 .. w - 1) :
                                   q[1] <= q[2] /\ q[3] <= q[4]}}

ComputeCropBox ==
    /\ call = NoCall
    /\ \E h \in 1 .. MaxBoxH, w \in 1 .. MaxBoxW :
         \E mask \in BoxMasks(h, w) :
            call' = [fn |-> "compute_crop_box", mask |-> mask, size |-> <<w, h>>,
                     expanded |-> expanded_box(mask, <<w, h>>),
                     squared |-> make_square(expanded_box(mask, <<w, h>>), h, w),
                     ret |-> compute_crop_box(mask, <<w, h>>)]
    /\ UNCHANGED <<lc, inv, fs>>

FallbackCrop ==
    /\ call = NoCall
    /\ \E h \in 1 .. MaxBoxH, w \in 1 .. MaxBoxW, ratio \in FeatherRatios :
         call' = [fn |-> "fallback_crop", size |-> <<w, h>>, feather_ratio |-> ratio,
                  ret |-> fallback_crop(<<w, h>>, ratio)]
    /\ UNCHANGED <<lc, inv, fs>>

\* make_square on every well-formed box inside every frame
MakeSquare ==
    /\ call = NoCall
    /\ \E h \in 1 .. MaxBoxH, w \in 1 .. MaxBoxW :
         \E t \in 0 .. h - 1, l \in 0 .. w - 1 :
            \E b \in t + 1 .. h, r \in l + 1 .. w :
               call' = [fn |-> "make_square", box |-> CropBox(t, b, l, r),
                        total_h |-> h, total_w |-> w,
                        ret |-> make_square(CropBox(t, b, l, r), h, w)]
    /\ UNCHANGED <<lc, inv, fs>>

NextBox == ComputeCropBox \/ FallbackCrop \/ MakeSquare

SpecBox == InitCall /\ [][NextBox]_vars

InFrame(box, h, w) ==
    /\ 0 <= box.top /\ box.top <= box.bottom /\ box.bottom <= h
    /\ 0 <= box.left /\ box.left <= box.right /\ box.right <= w

DesiredSide(box) == Max2(height(box), width(box))

IsCropBoxCall == call.fn = "compute_crop_box"

\* C1 as stated: the crop box of every non-empty region mask is square and
\* lies inside [0,H] x [0,W].
C1_SquareInside ==
    IsCropBoxCall =>
        /\ height(call.ret) = width(call.ret)
        /\ InFrame(call.ret, call.size[2], call.size[1])

\* C1 amended: the crop box lies inside [0,H] x [0,W], its height is
\* min(side, H) and its width min(side, W) for side the larger dimension of the
\* expanded box; so it is square whenever side <= min(H, W).
C1_SquareWhenSideFits ==
    IsCropBoxCall =>
        LET side == DesiredSide(call.expanded)
            h == call.size[2]
            w == call.size[1]
        IN  /\ InFrame(call.ret, h, w)
            /\ height(call.ret) = Min2(side, h)
            /\ width(call.ret) = Min2(side, w)
            /\ (side <= Min2(h, w) => height(call.ret) = width(call.ret))

\* a square that had to be shifted back: the expanded box is not square, its
\* recentred square would leave the frame, and the result is side x side
C1_Witness ==
    /\ IsCropBoxCall
    /\ LET side == DesiredSide(call.expanded) IN
        /\ side <= Min2(call.size[1], call.size[2])
        /\ height(call.expanded) # width(call.expanded)
        /\ call.ret # make_square_noshift(call.expanded, call.size[2], call.size[1])
        /\ height(call.ret) = side /\ width(call.ret) = side

\* C2: the crop box is well-formed, 0 <= top < bottom <= H and
\* 0 <= left < right <= W, also when the desired side exceeds H or W.
C2_WellFormed ==
    IsCropBoxCall =>
        /\ 0 <= call.ret.top /\ call.ret.top < call.ret.bottom
        /\ call.ret.bottom <= call.size[2]
        /\ 0 <= call.ret.left /\ call.ret.left < call.ret.right
        /\ call.ret.right <= call.size[1]

\* the desired side exceeds the frame's width and the box is still non-empty
C2_Witness ==
    /\ IsCropBoxCall
    /\ DesiredSide(call.expanded) > call.size[1]
    /\ call.ret.top < call.ret.bottom /\ call.ret.left < call.ret.right

IsFallbackCall == call.fn = "fallback_crop"

AlphaShape(rgba) ==
    <<Cardinality({p[1] : p \in DOMAIN rgba.alpha}),
      Cardinality({p[2] : p \in DOMAIN rgba.alpha})>>

FallbackShapeOk(side) ==
    /\ height(call.ret.box) = side /\ width(call.ret.box) = side
    /\ InFrame(call.ret.box, call.size[2], call.size[1])
    /\ AlphaShape(call.ret) = <<side, side>>
    /\ Cardinality(DOMAIN call.ret.alpha) = side * side

\* C9 as stated: the fallback square has side min(H,W), left = (W-side) div 2,
\* top = (H-side) div 2 - side div 6, lies inside the frame, and the RGBA
\* image and its alpha map are side x side.
C9_TopUnclamped ==
    IsFallbackCall =>
        LET w == call.size[1]
            h == call.size[2]
            side == Min2(h, w)
        IN  /\ call.ret.box.left = (w - side) \div 2
            /\ call.ret.box.top = (h - side) \div 2 - side \div 6
            /\ FallbackShapeOk(side)

\* C9 amended: as stated, except that the top edge is
\* max((H-side) div 2 - side div 6, 0): the upward move stops at the frame's
\* top edge.
C9_TopClamped ==
    IsFallbackCall =>
        LET w == call.size[1]
            h == call.size[2]
            side == Min2(h, w)
        IN  /\ call.ret.box.left = (w - side) \div 2
            /\ call.ret.box.top = Max2((h - side) \div 2 - side \div 6, 0)
            /\ FallbackShapeOk(side)

\* a portrait frame whose fallback square is moved up from the centred position
C9_Witness ==
    /\ IsFallbackCall
    /\ LET side == Min2(call.size[1], call.size[2]) IN
        /\ side \div 6 > 0
        /\ call.ret.box.top < (call.size[2] - side) \div 2
        /\ call.ret.box.top = (call.size[2] - side) \div 2 - side \div 6

\* does outer contain inner
Contains(outer, inner) ==
    /\ outer.top <= inner.top /\ inner.bottom <= outer.bottom
    /\ outer.left <= inner.left /\ inner.right <= outer.right

\* make_square's result for a box whose side fits the frame
SquareShifted(box, ret, h, w) ==
    LET side == DesiredSide(box)
    IN  side <= h /\ side <= w =>
            /\ height(ret) = side /\ width(ret) = side
            /\ InFrame(ret, h, w)
            /\ Contains(ret, box)

\* C13: for every box inside the frame whose side = max(height, width) is at
\* most H and at most W, make_square returns a box that is exactly
\* side x side, lies inside [0,H] x [0,W] and contains the box it was built
\* from; so does the square compute_crop_box builds from its expanded box.
C13_SquareContainsBox ==
    /\ (call.fn = "make_square" =>
            SquareShifted(call.box, call.ret, call.total_h, call.total_w))
    /\ (IsCropBoxCall =>
            SquareShifted(call.expanded, call.squared, call.size[2], call.size[1]))

\* a wide box next to the frame's bottom edge: the recentred square would
\* leave the frame and is translated back, still side x side around the box
C13_Witness ==
    /\ call.fn = "make_square"
    /\ height(call.box) < width(call.box)
    /\ width(call.box) <= call.total_h
    /\ call.box.bottom = call.total_h
    /\ call.box.top + height(call.box) \div 2 - width(call.box) \div 2 + width(call.box)
         > call.total_h
    /\ call.ret.bottom = call.total_h
    /\ height(call.ret) = width(call.box) /\ width(call.ret) = width(call.box)
    /\ Contains(call.ret, call.box)

(***************************************************************************)
(* The alpha feather: feathered_alpha on the 100 x 100 crop and on small   *)
(* shapes, observed one pixel of the returned map at a time.               *)
(***************************************************************************)
FeatherShapes == {ClaimShape} \cup ((1 .. MaxFeatherDim) \X (1 .. MaxFeatherDim))

FeatheredAlpha ==
    /\ call = NoCall
    /\ \E shape \in FeatherShapes, ratio \in FeatherRatios :
         LET alpha == feathered_alpha(shape, ratio)
         IN  \E p \in DOMAIN alpha :
                call' = [fn |-> "feathered_alpha", shape |-> shape, inner_ratio |-> ratio,
                         pixel |-> p, ret_at |-> alpha[p]]
    /\ UNCHANGED <<lc, inv, fs>>

NextFeather == FeatheredAlpha

SpecFeather == InitCall /\ [][NextFeather]_vars

IsClaimFeatherCall ==
    /\ call.fn = "feathered_alpha"
    /\ call.shape = ClaimShape
    /\ call.inner_ratio = DefaultFeatherRatio

RECURSIVE Gcd(_, _)
Gcd(a, b) == IF b = 0 THEN a ELSE Gcd(b, a % b)

\* the normalized radius of pixel <<i, j>> as a real number: with
\* a = 2i - (h-1), b = 2j - (w-1) and g = gcd(h, w) it is
\* sqrt(RadiusNum) / RadiusDen
RadiusNum(shape, i, j) ==
    LET g == Gcd(shape[1], shape[2])
        a == 2 * i - (shape[1] - 1)
        b == 2 * j - (shape[2] - 1)
    IN  a * a * (shape[2] \div g) * (shape[2] \div g)
        + b * b * (shape[1] \div g) * (shape[1] \div g)

RadiusDen(shape) == (shape[1] * shape[2]) \div Gcd(shape[1], shape[2])

\* the centre-most pixels of an h x w map: rows (h-1) div 2 and h div 2,
\* columns (w-1) div 2 and w div 2
CentrePixels(shape) ==
    {(shape[1] - 1) \div 2, shape[1] \div 2} \X {(shape[2] - 1) \div 2, shape[2] \div 2}

\* the pixels at the middle of the first and last row and column
EdgeMidPixels(shape) ==
    ({0, shape[1] - 1} \X {(shape[2] - 1) \div 2, shape[2] \div 2})
    \cup ({(shape[1] - 1) \div 2, shape[1] \div 2} \X {0, shape[2] - 1})

\* C10 as stated: for feather_ratio 0.92 on a 100 x 100 crop the centre-most
\* pixels of the alpha map are 255 and the pixels at the middle of the first
\* and last row and column are 0.
C10_EdgeMidZero ==
    IsClaimFeatherCall =>
        /\ (call.pixel \in CentrePixels(ClaimShape) => call.ret_at = 255)
        /\ (call.pixel \in EdgeMidPixels(ClaimShape) => call.ret_at = 0)

\* C10 amended: for feather_ratio 0.92 on a 100 x 100 crop the centre-most
\* pixels are 255; the pixels at the middle of the first and last row and
\* column have normalized radius sqrt(0.9802) < 1 and opacity 31; opacity is 0
\* at every pixel of normalized radius >= 1.
C10_EdgeMidRamp ==
    IsClaimFeatherCall =>
        /\ (call.pixel \in CentrePixels(ClaimShape) => call.ret_at = 255)
        /\ (call.pixel \in EdgeMidPixels(ClaimShape) =>
               /\ 10000 * RadiusNum(ClaimShape, call.pixel[1], call.pixel[2])
                    = 9802 * RadiusDen(ClaimShape) * RadiusDen(ClaimShape)
               /\ call.ret_at = 31)
        /\ (RadiusNum(ClaimShape, call.pixel[1], call.pixel[2])
              >= RadiusDen(ClaimShape) * RadiusDen(ClaimShape) => call.ret_at = 0)

\* the middle of the first row of the 100 x 100 map, on the ramp
C10_Witness ==
    /\ IsClaimFeatherCall
    /\ call.pixel = <<0, 49>>
    /\ call.ret_at = 31

(***************************************************************************)
(* The morphology on every mask of at most MaxMorphPixels pixels.          *)
(***************************************************************************)
MorphExtents ==
    {e \in (1 .. MaxMorphPixels) \X (1 .. MaxMorphPixels) : e[1] * e[2] <= MaxMorphPixels}

MorphMasks == UNION {{Mask(e[1], e[2], px) : px \in SUBSET Pixels(e[1], e[2])} : e \in MorphExtents}

\* the kernels of refine_mask's open and close, a smaller odd one, and even ones
PipelineKernels == {5, 9}

MorphKernels == PipelineKernels \cup {0, 2, 3}

BinaryErode ==
    /\ call = NoCall
    /\ \E mask \in MorphMasks, kernel \in MorphKernels, iterations \in 0 .. MaxIterations :
         call' = [fn |-> "binary_erode", mask |-> mask, kernel |-> kernel,
                  iterations |-> iterations, ret |-> binary_erode(mask, kernel, iterations)]
    /\ UNCHANGED <<lc, inv, fs>>

BinaryDilate ==
    /\ call = NoCall
    /\ \E mask \in MorphMasks, kernel \in MorphKernels, iterations \in 0 .. MaxIterations :
         call' = [fn |-> "binary_dilate", mask |-> mask, kernel |-> kernel,
                  iterations |-> iterations, ret |-> binary_dilate(mask, kernel, iterations)]
    /\ UNCHANGED <<lc, inv, fs>>

BinaryOpen ==
    /\ call = NoCall
    /\ \E mask \in MorphMasks, kernel \in MorphKernels :
         call' = [fn |-> "binary_open", mask |-> mask, kernel |-> kernel,
                  iterations |-> 1, ret |-> binary_open(mask, kernel)]
    /\ UNCHANGED <<lc, inv, fs>>

BinaryClose ==
    /\ call = NoCall
    /\ \E mask \in MorphMasks, kernel \in MorphKernels :
         call' = [fn |-> "binary_close", mask |-> mask, kernel |-> kernel,
                  iterations |-> 1, ret |-> binary_close(mask, kernel)]
    /\ UNCHANGED <<lc, inv, fs>>

NextMorph == BinaryErode \/ BinaryDilate \/ BinaryOpen \/ BinaryClose

SpecMorph == InitCall /\ [][NextMorph]_vars

IsMorphCall == call.fn \in {"binary_erode", "binary_dilate", "binary_open", "binary_close"}

\* C3 as stated: for every mask and the pipeline's kernel sizes,
\* binary_open(mask, k) is a subset of mask and mask is a subset of
\* binary_close(mask, k).
C3_OpenSubsetClose ==
    /\ (call.fn = "binary_open" /\ call.kernel \in PipelineKernels =>
            ~call.ret.raised /\ call.ret.out.px \subseteq call.mask.px)
    /\ (call.fn = "binary_close" /\ call.kernel \in PipelineKernels =>
            ~call.ret.raised /\ call.mask.px \subseteq call.ret.out.px)

\* C6: an even kernel makes every morphology operation raise before any work
\* on the mask, for every mask and iteration count, and no mask is returned.
C6_EvenKernelFailsFast ==
    IsMorphCall /\ call.kernel % 2 = 0 =>
        /\ call.ret.raised
        /\ call.ret.work = 0
        /\ call.ret.out = NoMask

\* an even kernel with zero iterations on a non-empty mask, rejected
C6_Witness ==
    /\ call.fn = "binary_dilate"
    /\ call.kernel = 2
    /\ call.iterations = 0
    /\ call.mask.px # {}
    /\ call.ret.raised

(***************************************************************************)
(* The component selector, step by step, on every mask of at most          *)
(* MaxCompPixels pixels.                                                   *)
(***************************************************************************)
CompExtents ==
    {e \in (1 .. MaxCompPixels) \X (1 .. MaxCompPixels) : e[1] * e[2] <= MaxCompPixels}

CompMasks == UNION {{Mask(e[1], e[2], px) : px \in SUBSET Pixels(e[1], e[2])} : e \in CompExtents}

InitComp ==
    /\ call = NoCall /\ inv = << >> /\ fs = << >>
    /\ lc \in {LcmInit(mask) : mask \in CompMasks}

LcScanRow ==
    /\ lc.pc = "row" /\ lc.y < lc.mask.h
    /\ lc' = ScanRow(lc)
    /\ UNCHANGED <<call, inv, fs>>

LcFinish ==
    /\ lc.pc = "row" /\ lc.y >= lc.mask.h
    /\ lc' = Finish(lc)
    /\ UNCHANGED <<call, inv, fs>>

LcStartFill ==
    /\ lc.pc = "cand" /\ lc.candidates # << >>
    /\ lc' = StartFill(lc)
    /\ UNCHANGED <<call, inv, fs>>

LcNextRow ==
    /\ lc.pc = "cand" /\ lc.candidates = << >>
    /\ lc' = NextRow(lc)
    /\ UNCHANGED <<call, inv, fs>>

LcFillStep ==
    /\ lc.pc = "fill" /\ lc.queue # << >>
    /\ lc' = FillStep(lc)
    /\ UNCHANGED <<call, inv, fs>>

LcEndFill ==
    /\ lc.pc = "fill" /\ lc.queue = << >>
    /\ lc' = EndFill(lc)
    /\ UNCHANGED <<call, inv, fs>>

NextComp == LcScanRow \/ LcFinish \/ LcStartFill \/ LcNextRow \/ LcFillStep \/ LcEndFill

SpecComp == InitComp /\ [][NextComp]_vars

\* 8-adjacency, and the maximal 8-connected regions of a set of pixels
Adjacent(p, q) ==
    /\ p # q
    /\ p[1] - q[1] \in -1 .. 1
    /\ p[2] - q[2] \in -1 .. 1

RECURSIVE Grow(_, _)
Grow(S, px) ==
    LET T == S \cup {q \in px : \E p \in S : Adjacent(p, q)}
    IN  IF T = S THEN S ELSE Grow(T, px)

Regions(px) == {Grow({p}, px) : p \in px}

RowMajorBefore(p, q) == p[1] < q[1] \/ (p[1] = q[1] /\ p[2] < q[2])

FirstPixel(R) == CHOOSE p \in R : \A q \in R \ {p} : RowMajorBefore(p, q)

\* C4: for a mask with a true pixel, largest_component_mask returns a mask
\* of the same extent that is exactly one maximal 8-connected region, of the
\* greatest pixel count, and among the regions of that count the one whose
\* first pixel comes first in row-major order.
C4_LargestFirstRegion ==
    lc.pc = "done" /\ lc.mask.px # {} =>
        /\ lc.result # None
        /\ lc.result.h = lc.mask.h /\ lc.result.w = lc.mask.w
        /\ lc.result.px \in Regions(lc.mask.px)
        /\ \A R \in Regions(lc.mask.px) :
              /\ Cardinality(R) <= Cardinality(lc.result.px)
              /\ (Cardinality(R) = Cardinality(lc.result.px) /\ R # lc.result.px =>
                     RowMajorBefore(FirstPixel(lc.result.px), FirstPixel(R)))

\* two regions of the same greatest size, and a smaller one: the first wins
C4_Witness ==
    /\ lc.pc = "done"
    /\ lc.result # None
    /\ \E R \in Regions(lc.mask.px) :
          /\ R # lc.result.px
          /\ Cardinality(R) = Cardinality(lc.result.px)
          /\ Cardinality(R) >= 2
    /\ \E R \in Regions(lc.mask.px) : Cardinality(R) < Cardinality(lc.result.px)

\* C12 as stated: a fill is started only from a true pixel not yet marked
\* visited, no pixel is processed twice during the call, the number of
\* processed pixels never exceeds H * W, and no pixel outside the frame is
\* visited, queued or processed.
C12_EachPixelOnce ==
    /\ lc.stale = << >>
    /\ \A i, j \in 1 .. Len(lc.processed) : i # j => lc.processed[i] # lc.processed[j]
    /\ Len(lc.processed) <= lc.mask.h * lc.mask.w
    /\ SeqToSet(lc.processed) \cup SeqToSet(lc.queue) \cup lc.visited
          \subseteq Pixels(lc.mask.h, lc.mask.w)

(***************************************************************************)
(* The mask builder on single pixels sampled around its thresholds.        *)
(***************************************************************************)
ChannelSamples ==
    {0, 20, 21, 40, 41, 70, 71, 110, 150, 255} \cup (195 .. 206)

SkinMask ==
    /\ call = NoCall
    /\ \E r \in ChannelSamples, g \in ChannelSamples, b \in ChannelSamples :
         LET image == [h |-> 1, w |-> 1, rgb |-> [p \in Pixels(1, 1) |-> <<r, g, b>>]]
         IN  call' = [fn |-> "skin_mask", image |-> image, ret |-> skin_mask(image)]
    /\ UNCHANGED <<lc, inv, fs>>

NextSkin == SkinMask

SpecSkin == InitCall /\ [][NextSkin]_vars

\* C8 as stated: a pixel is marked skin-candidate only if R > 70, G > 40,
\* B > 20 and |R - G| > 5.
C8_SkinNeedsRgGap ==
    call.fn = "skin_mask" =>
        \A p \in call.ret.px :
            LET px == call.image.rgb[p]
            IN  /\ px[1] > SkinRMin /\ px[2] > SkinGMin /\ px[3] > SkinBMin
                /\ (px[1] - px[2] > SkinRgDiffMin \/ px[2] - px[1] > SkinRgDiffMin)

(***************************************************************************)
(* crop_to_face, one call at a time, on frames of sides 3, 9 and           *)
(* MaxPipeDim holding a rectangular skin-coloured patch on gray; and       *)
(* largest_component_mask on every mask of at most MaxCompPixels pixels.   *)
(***************************************************************************)
SkinTone == <<200, 150, 120>>

Gray == <<128, 128, 128>>

PatchImage(h, w, patch) ==
    [h |-> h, w |-> w,
     rgb |-> [p \in Pixels(h, w) |-> IF p \in patch THEN SkinTone ELSE Gray]]

PipeDims == {3, 9, MaxPipeDim}

\* patches start at row/column 0 or 2 and are 1 or 5 long or reach the far edge
PatchSpans(n) == {<<a, b>> \in (0 .. n - 1) \X (0 .. n - 1) :
                    a \in {0, 2} /\ b \in {a, a + 4, n - 1} /\ a <= b}

PipeImages ==
    UNION {{PatchImage(e[1], e[2], {})}
           \cup {PatchImage(e[1], e[2], Rect(ys[1], ys[2], xs[1], xs[2])) :
                   ys \in PatchSpans(e[1]), xs \in PatchSpans(e[2])} :
           e \in PipeDims \X PipeDims}

CropToFace ==
    /\ call = NoCall
    /\ \E image \in PipeImages, debug_masks \in BOOLEAN :
         call' = [fn |-> "crop_to_face", image |-> image,
                  feather_ratio |-> DefaultFeatherRatio, debug_masks |-> debug_masks,
                  out |-> crop_to_face(image, DefaultFeatherRatio, debug_masks)]
    /\ UNCHANGED <<lc, inv, fs>>

LargestComponentMask ==
    /\ call = NoCall
    /\ \E mask \in CompMasks :
         call' = [fn |-> "largest_component_mask", mask |-> mask,
                  ret |-> largest_component_mask(mask)]
    /\ UNCHANGED <<lc, inv, fs>>

NextCrop == CropToFace \/ LargestComponentMask

SpecCrop == InitCall /\ [][NextCrop]_vars

\* C5: largest_component_mask returns None exactly when its input has no
\* true pixel; crop_to_face then returns the fallback crop without raising,
\* takes the fallback branch in no other case, and returns the fallback
\* whenever the skin mask is all-false.
C5_FallbackIffNoRegion ==
    /\ (call.fn = "largest_component_mask" =>
            (call.ret = None <=> call.mask.px = {}))
    /\ (call.fn = "crop_to_face" =>
            /\ ~call.out.raised
            /\ (call.out.component_mask = None <=> call.out.refined.px = {})
            /\ (call.out.branch = "fallback" <=> call.out.component_mask = None)
            /\ (call.out.branch = "fallback" =>
                    call.out.ret = fallback_crop(<<call.image.w, call.image.h>>,
                                                 call.feather_ratio))
            /\ (call.out.skin.px = {} => call.out.branch = "fallback"))

\* a uniformly gray 9 x 9 image: the skin mask is all-false and crop_to_face
\* returns the centred-square fallback
C5_Witness ==
    /\ call.fn = "crop_to_face"
    /\ call.image.h = 9 /\ call.image.w = 9
    /\ \A p \in Pixels(9, 9) : call.image.rgb[p] = Gray
    /\ call.out.skin.px = {}
    /\ call.out.branch = "fallback"
    /\ call.out.ret.box = CropBox(0, 9, 0, 9)

\* the debug artefacts a call of crop_to_face has emitted
Emitted(out) ==
    {out.fs_ops[k].path : k \in {n \in 1 .. Len(out.fs_ops) : out.fs_ops[n].op = "save"}}

\* C11 as stated: with debug_masks true crop_to_face emits all three debug
\* artefacts (mask preview, bounds overlay, crop), with debug_masks false it
\* emits none, and in both cases it performs no file-system operation.
C11_DebugArtefactsNoFs ==
    call.fn = "crop_to_face" =>
        /\ (call.debug_masks => Emitted(call.out) = DebugFiles)
        /\ (~call.debug_masks => Emitted(call.out) = {})
        /\ call.out.fs_ops = << >>

(***************************************************************************)
(* Parallel invocations: NumWorkers callers each run crop_to_face on an    *)
(* image of their own; the steps of different invocations interleave.  An  *)
(* invocation computes in memory (Compute), performs the file-system       *)
(* operations of export_debug_layers step by step (Mkdir, and for each     *)
(* save SaveOpen, SaveWrite per piece, SaveClose) and returns (Return).    *)
(* fs is the one file system all of them see.                              *)
(***************************************************************************)
Workers == 1 .. NumWorkers

\* a gray image, an all-skin image, and a skin block on a wider and on a
\* taller frame
ParImages ==
    {PatchImage(9, 9, {}), PatchImage(9, 9, Rect(0, 8, 0, 8)),
     PatchImage(9, MaxPipeDim, Rect(2, 6, 2, 6)), PatchImage(MaxPipeDim, 9, Rect(2, 6, 2, 6))}

\* crop_to_face on each of them, with and without debug_masks
ParRuns ==
    {<<image, debug_masks, crop_to_face(image, DefaultFeatherRatio, debug_masks)>> :
        image \in ParImages, debug_masks \in BOOLEAN}

RunOf(image, debug_masks) ==
    (CHOOSE r \in ParRuns : r[1] = image /\ r[2] = debug_masks)[3]

NoRun == [branch |-> "none"]

EmptyFs(paths) ==
    [dirs |-> {}, files |-> [f \in paths |-> NoFile], writers |-> [f \in paths |-> {}]]

\* part is 0 while the invocation has no file open, and else the piece it
\* writes next
InitPar ==
    /\ call = NoCall /\ lc = Idle
    /\ fs = EmptyFs(DebugFiles)
    /\ inv \in {a \in [Workers -> [pc : {"start"}, image : ParImages, debug_masks : BOOLEAN,
                                   out : {NoRun}, next_op : {1}, part : {0}]] :
                  \A i, j \in Workers : i # j => a[i].image # a[j].image}

\* lines 117-131: everything crop_to_face does in memory
Compute(i) ==
    /\ inv[i].pc = "start"
    /\ LET out == RunOf(inv[i].image, inv[i].debug_masks)
       IN  inv' = [inv EXCEPT ![i].out = out,
                              ![i].pc = IF out.fs_ops = << >> THEN "return" ELSE "export"]
    /\ UNCHANGED <<call, lc, fs>>

\* the operation of export_debug_layers invocation i is at
OpOf(i) == inv[i].out.fs_ops[inv[i].next_op]

\* invocation i moves on to its next operation, or back to crop_to_face
Advance(i) ==
    [inv EXCEPT ![i].part = 0,
                ![i].next_op = inv[i].next_op + 1,
                ![i].pc = IF inv[i].next_op = Len(inv[i].out.fs_ops) THEN "return" ELSE "export"]

\* line 349: debug_dir.mkdir(exist_ok=True)
Mkdir(i) ==
    /\ inv[i].pc = "export" /\ OpOf(i).op = "mkdir"
    /\ fs' = FsMkdir(fs, OpOf(i).path)
    /\ inv' = Advance(i)
    /\ UNCHANGED <<call, lc>>

\* lines 352, 362, 363: Image.save opens the path for writing
SaveOpen(i) ==
    /\ inv[i].pc = "export" /\ OpOf(i).op = "save" /\ inv[i].part = 0
    /\ fs' = FsOpen(fs, OpOf(i).path, i)
    /\ inv' = [inv EXCEPT ![i].part = 1]
    /\ UNCHANGED <<call, lc>>

\* ... writes the next piece of the encoding
SaveWrite(i) ==
    /\ inv[i].pc = "export" /\ OpOf(i).op = "save" /\ inv[i].part \in 1 .. SaveWrites
    /\ fs' = FsWrite(fs, OpOf(i).path, OpOf(i).data, inv[i].part)
    /\ inv' = [inv EXCEPT ![i].part = inv[i].part + 1]
    /\ UNCHANGED <<call, lc>>

\* ... and closes the file
SaveClose(i) ==
    /\ inv[i].pc = "export" /\ OpOf(i).op = "save" /\ inv[i].part = SaveWrites + 1
    /\ inv' = Advance(i)
    /\ UNCHANGED <<call, lc, fs>>

\* line 135 (or 123): the RGBA buffer goes back to the caller
Return(i) ==
    /\ inv[i].pc = "return"
    /\ inv' = [inv EXCEPT ![i].pc = "done"]
    /\ UNCHANGED <<call, lc, fs>>

NextPar ==
    \E i \in Workers :
        Compute(i) \/ Mkdir(i) \/ SaveOpen(i) \/ SaveWrite(i) \/ SaveClose(i) \/ Return(i)

SpecPar == InitPar /\ [][NextPar]_vars

\* what invocation i leaves in the file system when it runs alone
SavedAlone(i) ==
    {<<inv[i].out.fs_ops[k].path, Encoded(inv[i].out.fs_ops[k].data)>> :
        k \in {n \in 1 .. Len(inv[i].out.fs_ops) : inv[i].out.fs_ops[n].op = "save"}}

\* C7 as stated: under every interleaving no invocation writes a location
\* that another invocation writes, and once an invocation has produced its
\* debug artefacts they are what it produces when it runs alone.
C7_NoSharedLocation ==
    /\ \A f \in DebugFiles : Cardinality(fs.writers[f]) <= 1
    /\ \A i \in Workers :
          inv[i].pc \in {"return", "done"} =>
              /\ inv[i].out = RunOf(inv[i].image, inv[i].debug_masks)
              /\ \A s \in SavedAlone(i) : fs.files[s[1]] = s[2]

(***************************************************************************)
(* main (face_cropper.py 45-66): one run of the program over its inputs,   *)
(* in order.  The run makes the output directory, and for each input       *)
(* either skips it or crops it (crop_to_face, with its debug export) and   *)
(* saves the result under the input's stem.  Nothing else runs meanwhile,  *)
(* so each save is one step.  inv holds the run's arguments and position.  *)
(***************************************************************************)
OutputDirs == {"faces", DebugDir}

\* the inputs by stem: a gray image, and two in which a region is found
StemImage(stem) ==
    CASE stem = "wall" -> PatchImage(9, 9, {})
      [] stem = "boss" -> PatchImage(9, 9, Rect(0, 8, 0, 8))
      [] stem = "mask" -> PatchImage(9, MaxPipeDim, Rect(2, 6, 2, 6))

\* collect_inputs (lines 107-113): one file, or a folder's images sorted
InputLists ==
    {<<"boss">>, <<"mask">>, <<"wall">>, <<"boss", "mask">>, <<"boss", "wall">>,
     <<"mask", "wall">>, <<"boss", "mask", "wall">>}

MainPaths == DebugFiles \cup (OutputDirs \X {"boss", "mask", "wall"})

\* a file an earlier run left behind
OldFile == Encoded("old")

InitMain ==
    /\ call = NoCall /\ lc = Idle
    /\ \E output_dir \in OutputDirs, inputs \in InputLists,
          overwrite \in BOOLEAN, debug_masks \in BOOLEAN :
          /\ inv = [pc |-> "mkdir", output_dir |-> output_dir, inputs |-> inputs,
                    overwrite |-> overwrite, debug_masks |-> debug_masks,
                    idx |-> 1, out |-> NoRun]
          /\ \E old \in SUBSET {<<output_dir, inputs[n]>> : n \in 1 .. Len(inputs)} :
                fs = [EmptyFs(MainPaths) EXCEPT
                        !.dirs = IF old = {} THEN {} ELSE {output_dir},
                        !.files = [f \in MainPaths |-> IF f \in old THEN OldFile ELSE NoFile]]

\* line 52
OutPath == <<inv.output_dir, inv.inputs[inv.idx]>>

\* line 48: args.output_dir.mkdir(parents=True, exist_ok=True)
MainMkdir ==
    /\ inv.pc = "mkdir"
    /\ fs' = FsMkdir(fs, inv.output_dir)
    /\ inv' = [inv EXCEPT !.pc = "loop"]
    /\ UNCHANGED <<call, lc>>

\* lines 53-56: the output exists and --overwrite is not given
MainSkip ==
    /\ inv.pc = "loop" /\ inv.idx <= Len(inv.inputs)
    /\ FsExists(fs, OutPath) /\ ~inv.overwrite
    /\ inv' = [inv EXCEPT !.idx = inv.idx + 1]
    /\ UNCHANGED <<call, lc, fs>>

\* the file system after the operations ops[k ..] of one export_debug_layers
RECURSIVE FsApply(_, _, _, _)
FsApply(files, ops, k, by) ==
    IF k > Len(ops) THEN files
    ELSE FsApply(IF ops[k].op = "mkdir" THEN FsMkdir(files, ops[k].path)
                 ELSE FsSave(files, ops[k].path, ops[k].data, by),
                 ops, k + 1, by)

\* lines 61-62: the image is opened and cropped
MainCrop ==
    /\ inv.pc = "loop" /\ inv.idx <= Len(inv.inputs)
    /\ ~(FsExists(fs, OutPath) /\ ~inv.overwrite)
    /\ LET out == crop_to_face(StemImage(inv.inputs[inv.idx]), DefaultFeatherRatio,
                               inv.debug_masks)
       IN  /\ inv' = [inv EXCEPT !.pc = "save", !.out = out]
           /\ fs' = FsApply(fs, out.fs_ops, 1, inv.idx)
    /\ UNCHANGED <<call, lc>>

\* line 63: rgba.save(out_path)
MainSave ==
    /\ inv.pc = "save"
    /\ fs' = FsSave(fs, OutPath, [rgba |-> inv.out.ret], inv.idx)
    /\ inv' = [inv EXCEPT !.pc = "loop", !.idx = inv.idx + 1, !.out = NoRun]
    /\ UNCHANGED <<call, lc>>

NextMain == MainMkdir \/ MainSkip \/ MainCrop \/ MainSave

SpecMain == InitMain /\ [][NextMain]_vars

====
